---- MODULE Spec2Model ----
(***************************************************************************)
(* weather.py: a single-shot command-line client.  main() parses the       *)
(* arguments, optionally lists the property registry, validates the        *)
(* requested properties, then issues a chain of blocking HTTP GETs         *)
(* (geocoding search, NWS points, observation stations, latest             *)
(* observation) and prints a text or JSON report.                          *)
(*                                                                         *)
(* The model is a state machine over the position of main() (pc), the two  *)
(* output streams, the log of issued requests and returned responses, and  *)
(* main()'s local variables.  The remote services are the environment:     *)
(* every response is chosen nondeterministically from a bounded set.       *)
(*                                                                         *)
(* Encodings.                                                              *)
(*  - A JSON object is a function from its keys; a missing key is a key    *)
(*    outside DOMAIN.  JSON values whose type the code does not fix are    *)
(*    tagged records (JNull, JNum, JStr, JObj).                            *)
(*  - Decimal numbers are fixed-point integers; a printed number is a      *)
(*    token [key, n, dp, s]: n is the value scaled by 10^dp.               *)
(*  - The city argument is the sequence of its comma-separated fields,     *)
(*    each already stripped of surrounding blanks.                         *)
(*  - An uncaught Python exception ends the run with a traceback on        *)
(*    stderr and exit status 1.                                            *)
(***************************************************************************)
EXTENDS Integers, Sequences, FiniteSets, TLC

(* ----------------------------------------------------------------------- *)
(* Bounds of the model                                                     *)
(* ----------------------------------------------------------------------- *)

\* longest -p list drawn as input
MaxProps == 2

\* names that may be given after -p: registered ones and unregistered ones
PropArgNames == {"temperature", "humidity", "wind", "wind-direction", "bogus", "nope"}

(* ----------------------------------------------------------------------- *)
(* Generic helpers                                                         *)
(* ----------------------------------------------------------------------- *)

Empty == [k \in {} |-> 0]

Has(obj, key) == key \in DOMAIN obj

Range(seq) == {seq[i] : i \in DOMAIN seq}

\* Python round()/format rounding of the rational n/d (d > 0) to an integer:
\* nearest, ties to even.
Round(n, d) ==
    LET q == n \div d
        r == n % d
    IN  IF 2 * r < d THEN q
        ELSE IF 2 * r > d THEN q + 1
        ELSE IF q % 2 = 0 THEN q ELSE q + 1

\* one printed number or word
Tok(key, n, dp, s) == [key |-> key, n |-> n, dp |-> dp, s |-> s]

SeqsUpTo(S, n) == UNION {[1..k -> S] : k \in 1..n}

\* a sequence without the later repetitions of an element
RECURSIVE Dedup(_)
Dedup(seq) ==
    IF seq = <<>> THEN <<>>
    ELSE LET init == Dedup(SubSeq(seq, 1, Len(seq) - 1))
             last == seq[Len(seq)]
         IN  IF last \in Range(init) THEN init ELSE Append(init, last)

(* ----------------------------------------------------------------------- *)
(* Module constants                                                        *)
(* ----------------------------------------------------------------------- *)

DEFAULT_CITY == <<"Maple Valley", "WA">>

DEFAULT_PROPERTIES == <<"temperature", "humidity">>

(* ----------------------------------------------------------------------- *)
(* Unit conversions (fixed point)                                          *)
(* ----------------------------------------------------------------------- *)

\* (c * 9 / 5) + 32, scaled by 10
_c_to_f(c) == Round((c * 9 + 32 * 5) * 10, 5)

\* kmh * 0.621371, scaled by 10
_kmh_to_mph(kmh) == Round(kmh * 621371, 100000)

\* pa * 0.000295299, scaled by 100
_pa_to_inhg(pa) == Round(pa * 295299, 10000000)

\* m * 0.000621371, scaled by 10
_m_to_mi(m) == Round(m * 621371, 100000000)

directions ==
    <<"N", "NNE", "NE", "ENE", "E", "ESE", "SE", "SSE",
      "S", "SSW", "SW", "WSW", "W", "WNW", "NW", "NNW">>

\* directions[round(deg / 22.5) % 16]  (Python index 0 is index 1 here)
_degrees_to_compass(deg) == directions[(Round(deg * 2, 45) % 16) + 1]

(* ----------------------------------------------------------------------- *)
(* Formatters: text ("format") and JSON ("json")                           *)
(* ----------------------------------------------------------------------- *)

_temp_fmt(v) == <<Tok("", _c_to_f(v), 1, "F"), Tok("", v * 10, 1, "C")>>

_wind_speed_fmt(v) == <<Tok("", _kmh_to_mph(v), 1, "mph"), Tok("", v * 10, 1, "km/h")>>

_pressure_fmt(v) == <<Tok("", _pa_to_inhg(v), 2, "inHg"), Tok("", Round(v, 10), 1, "hPa")>>

_temp_json(v) == <<Tok("fahrenheit", _c_to_f(v), 1, ""), Tok("celsius", v * 10, 1, "")>>

_wind_speed_json(v) == <<Tok("mph", _kmh_to_mph(v), 1, ""), Tok("kmh", v * 10, 1, "")>>

_pressure_json(v) == <<Tok("inhg", _pa_to_inhg(v), 2, ""), Tok("hpa", Round(v, 10), 1, "")>>

_humidity_fmt(v) == <<Tok("", v * 10, 1, "%")>>

_humidity_json(v) == <<Tok("percent", v * 10, 1, "")>>

_wind_direction_fmt(v) == <<Tok("", 0, 0, _degrees_to_compass(v)), Tok("", v, 0, "deg")>>

_wind_direction_json(v) == <<Tok("compass", 0, 0, _degrees_to_compass(v)), Tok("degrees", v, 0, "")>>

_visibility_fmt(v) == <<Tok("", _m_to_mi(v), 1, "mi"), Tok("", Round(v, 100), 1, "km")>>

_visibility_json(v) == <<Tok("miles", _m_to_mi(v), 1, ""), Tok("km", Round(v, 100), 1, "")>>

\* v * 0.0393701 scaled by 100
_precipitation_fmt(v) == <<Tok("", Round(v * 393701, 100000), 2, "in"), Tok("", v * 10, 1, "mm")>>

_precipitation_json(v) == <<Tok("inches", Round(v * 393701, 100000), 2, ""), Tok("mm", v * 10, 1, "")>>

(* ----------------------------------------------------------------------- *)
(* Property registry                                                       *)
(* ----------------------------------------------------------------------- *)

\* the registry's keys in insertion order
PropertyNames ==
    <<"temperature", "humidity", "dewpoint", "wind-chill", "heat-index",
      "wind", "wind-direction", "wind-gust", "pressure", "sea-pressure",
      "visibility", "max-temp", "min-temp", "precipitation">>

Meta(api_key, label, fmt) == [api_key |-> api_key, label |-> label, fmt |-> fmt]

\* "fmt" names the pair of formatter functions of the entry
PROPERTIES ==
    [name \in Range(PropertyNames) |->
        CASE name = "temperature"    -> Meta("temperature", "Temperature", "temp")
          [] name = "humidity"       -> Meta("relativeHumidity", "Humidity", "humidity")
          [] name = "dewpoint"       -> Meta("dewpoint", "Dewpoint", "temp")
          [] name = "wind-chill"     -> Meta("windChill", "Wind Chill", "temp")
          [] name = "heat-index"     -> Meta("heatIndex", "Heat Index", "temp")
          [] name = "wind"           -> Meta("windSpeed", "Wind Speed", "wind_speed")
          [] name = "wind-direction" -> Meta("windDirection", "Wind Direction", "wind_direction")
          [] name = "wind-gust"      -> Meta("windGust", "Wind Gust", "wind_speed")
          [] name = "pressure"       -> Meta("barometricPressure", "Pressure", "pressure")
          [] name = "sea-pressure"   -> Meta("seaLevelPressure", "Sea Level Pressure", "pressure")
          [] name = "visibility"     -> Meta("visibility", "Visibility", "visibility")
          [] name = "max-temp"       -> Meta("maxTemperatureLast24Hours", "Max Temp (24h)", "temp")
          [] name = "min-temp"       -> Meta("minTemperatureLast24Hours", "Min Temp (24h)", "temp")
          [] name = "precipitation"  -> Meta("precipitationLast3Hours", "Precipitation (3h)", "precipitation")]

\* meta["format"](v)
Format(meta, v) ==
    CASE meta.fmt = "temp"           -> _temp_fmt(v)
      [] meta.fmt = "humidity"       -> _humidity_fmt(v)
      [] meta.fmt = "wind_speed"     -> _wind_speed_fmt(v)
      [] meta.fmt = "wind_direction" -> _wind_direction_fmt(v)
      [] meta.fmt = "pressure"       -> _pressure_fmt(v)
      [] meta.fmt = "visibility"     -> _visibility_fmt(v)
      [] meta.fmt = "precipitation"  -> _precipitation_fmt(v)

\* meta["json"](v)
Json(meta, v) ==
    CASE meta.fmt = "temp"           -> _temp_json(v)
      [] meta.fmt = "humidity"       -> _humidity_json(v)
      [] meta.fmt = "wind_speed"     -> _wind_speed_json(v)
      [] meta.fmt = "wind_direction" -> _wind_direction_json(v)
      [] meta.fmt = "pressure"       -> _pressure_json(v)
      [] meta.fmt = "visibility"     -> _visibility_json(v)
      [] meta.fmt = "precipitation"  -> _precipitation_json(v)

(* ----------------------------------------------------------------------- *)
(* JSON values of a type the code does not fix                             *)
(* ----------------------------------------------------------------------- *)

JNull == [t |-> "null"]

JNum(n) == [t |-> "num", n |-> n]

JStr(s) == [t |-> "str", s |-> s]

JObj(o) == [t |-> "obj", o |-> o]

\* isinstance(x, dict)
IsDict(x) == x.t = "obj"

\* Python truthiness of a JSON value
Truthy(x) ==
    CASE x.t = "null" -> FALSE
      [] x.t = "num"  -> x.n # 0
      [] x.t = "str"  -> x.s # ""
      [] x.t = "obj"  -> DOMAIN x.o # {}

(* ----------------------------------------------------------------------- *)
(* Control results of a function call: it returns a value, calls           *)
(* sys.exit(1) after printing lines to stderr, or raises an exception      *)
(* that nothing catches.                                                   *)
(* ----------------------------------------------------------------------- *)

Return(val) == [ctl |-> "return", val |-> val]

Exit1(err) == [ctl |-> "exit", err |-> err]

Raise(exc) == [ctl |-> "raise", exc |-> exc]

\* one printed line: its kind and its variable parts
Line(kind, text) == [kind |-> kind, text |-> text]

(* ----------------------------------------------------------------------- *)
(* Network: fetch                                                          *)
(* ----------------------------------------------------------------------- *)

\* what urlopen + read + json.loads can do
HttpOk(body) == [status |-> "ok", body |-> body]

HttpError(code) == [status |-> "HTTPError", code |-> code]

UrlError(why) == [status |-> "URLError", reason |-> why]

\* an exception outside the URLError hierarchy: a body that is not JSON
\* (json.JSONDecodeError), not UTF-8 (UnicodeDecodeError), a timeout while
\* reading the response (TimeoutError)
OtherError(exc) == [status |-> "raise", exc |-> exc]

FetchFailures ==
    {HttpError("404"), HttpError("500"), UrlError("unreachable"),
     OtherError("JSONDecodeError"), OtherError("TimeoutError")}

\* the mutant of fetch that does not catch URLError
fetch_uncaught_urlerror(req, resp) ==
    CASE resp.status = "ok"        -> Return(resp.body)
      [] resp.status = "HTTPError" ->
            Exit1(<<Line("Error", <<"HTTP", resp.code, "fetching", req.kind>>)>>)
      [] resp.status = "URLError"  -> Raise("URLError")
      [] resp.status = "raise"     -> Raise(resp.exc)

fetch(req, resp) ==
    CASE resp.status = "ok"        -> Return(resp.body)
      [] resp.status = "HTTPError" ->
            Exit1(<<Line("Error", <<"HTTP", resp.code, "fetching", req.kind>>)>>)
      [] resp.status = "URLError"  ->
            Exit1(<<Line("Error", <<"Network error", resp.reason>>)>>)
      [] resp.status = "raise"     -> Raise(resp.exc)

\* a request as issued: the kind of URL and the parts filled into it
Request(kind, name, la, lo, url, station) ==
    [kind |-> kind, name |-> name, lat |-> la, lon |-> lo, url |-> url, station |-> station]

(* ----------------------------------------------------------------------- *)
(* Geocoding                                                               *)
(* ----------------------------------------------------------------------- *)

STATE_ABBREVS ==
    [k \in {"al", "ak", "az", "ar", "ca", "co", "ct", "de", "fl", "ga", "hi", "id",
            "il", "in", "ia", "ks", "ky", "la", "me", "md", "ma", "mi", "mn", "ms",
            "mo", "mt", "ne", "nv", "nh", "nj", "nm", "ny", "nc", "nd", "oh", "ok",
            "or", "pa", "ri", "sc", "sd", "tn", "tx", "ut", "vt", "va", "wa", "wv",
            "wi", "wy", "dc"} |->
        CASE k = "al" -> "Alabama"        [] k = "ak" -> "Alaska"
          [] k = "az" -> "Arizona"        [] k = "ar" -> "Arkansas"
          [] k = "ca" -> "California"     [] k = "co" -> "Colorado"
          [] k = "ct" -> "Connecticut"    [] k = "de" -> "Delaware"
          [] k = "fl" -> "Florida"        [] k = "ga" -> "Georgia"
          [] k = "hi" -> "Hawaii"         [] k = "id" -> "Idaho"
          [] k = "il" -> "Illinois"       [] k = "in" -> "Indiana"
          [] k = "ia" -> "Iowa"           [] k = "ks" -> "Kansas"
          [] k = "ky" -> "Kentucky"       [] k = "la" -> "Louisiana"
          [] k = "me" -> "Maine"          [] k = "md" -> "Maryland"
          [] k = "ma" -> "Massachusetts"  [] k = "mi" -> "Michigan"
          [] k = "mn" -> "Minnesota"      [] k = "ms" -> "Mississippi"
          [] k = "mo" -> "Missouri"       [] k = "mt" -> "Montana"
          [] k = "ne" -> "Nebraska"       [] k = "nv" -> "Nevada"
          [] k = "nh" -> "New Hampshire"  [] k = "nj" -> "New Jersey"
          [] k = "nm" -> "New Mexico"     [] k = "ny" -> "New York"
          [] k = "nc" -> "North Carolina" [] k = "nd" -> "North Dakota"
          [] k = "oh" -> "Ohio"           [] k = "ok" -> "Oklahoma"
          [] k = "or" -> "Oregon"         [] k = "pa" -> "Pennsylvania"
          [] k = "ri" -> "Rhode Island"   [] k = "sc" -> "South Carolina"
          [] k = "sd" -> "South Dakota"   [] k = "tn" -> "Tennessee"
          [] k = "tx" -> "Texas"          [] k = "ut" -> "Utah"
          [] k = "vt" -> "Vermont"        [] k = "va" -> "Virginia"
          [] k = "wa" -> "Washington"     [] k = "wv" -> "West Virginia"
          [] k = "wi" -> "Wisconsin"      [] k = "wy" -> "Wyoming"
          [] k = "dc" -> "District of Columbia"]

\* str.lower() on the strings the model's inputs hold
Lower(s) ==
    CASE s = "WA"         -> "wa"
      [] s = "ME"         -> "me"
      [] s = "Maine"      -> "maine"
      [] s = "Oregon"     -> "oregon"
      [] s = "Washington" -> "washington"
      [] s = "Victoria"   -> "victoria"
      [] OTHER            -> s

\* r.get(key, default)
Get(r, key, default) == IF Has(r, key) THEN r[key] ELSE default

\* Return (latitude, longitude, display_name) for a US city, from the
\* decoded body of the search response.  Coordinates are in 1e-5 degrees.
geocode(city, data) ==
    LET IsUS(r)  == Get(r, "country_code", "") = "US"
        results  == SelectSeq(Get(data, "results", <<>>), IsUS)
        state_hint == Lower(city[2])
        full_state == Lower(Get(STATE_ABBREVS, state_hint, state_hint))
        InState(r) == Lower(Get(r, "admin1", "")) = full_state
        filtered == SelectSeq(results, InState)
        chosen   == IF Len(city) > 1 /\ filtered # <<>> THEN filtered ELSE results
        r        == chosen[1]
        parts    == <<r.name>>
                    \o (IF Get(r, "admin1", "") # "" THEN <<r.admin1>> ELSE <<>>)
                    \o <<"US">>
    IN  IF results = <<>>
        THEN Exit1(<<Line("Error", <<"Could not find", city[1], "in the United States">>)>>)
        ELSE IF ~Has(r, "name") \/ ~Has(r, "latitude") \/ ~Has(r, "longitude")
        THEN Raise("KeyError")
        ELSE Return([lat |-> r.latitude, lon |-> r.longitude, display_name |-> parts])

(* ----------------------------------------------------------------------- *)
(* NWS observations: get_observation, cut at its three blocking fetches    *)
(* ----------------------------------------------------------------------- *)

\* points_data["properties"]["observationStations"]
stations_url_of(points_data) ==
    IF ~Has(points_data, "properties") THEN Raise("KeyError")
    ELSE IF ~IsDict(points_data.properties) THEN Raise("TypeError")
    ELSE IF ~Has(points_data.properties.o, "observationStations") THEN Raise("KeyError")
    ELSE Return(points_data.properties.o.observationStations)

\* the mutant that takes the last listed station instead of the first
last_station_of(stations_data) ==
    LET features == Get(stations_data, "features", <<>>)
        f == features[Len(features)]
    IN  IF features = <<>>
        THEN Exit1(<<Line("Error", <<"No observation stations found near this location.">>)>>)
        ELSE IF ~Has(f, "properties") THEN Raise("KeyError")
        ELSE IF ~Has(f.properties, "stationIdentifier") THEN Raise("KeyError")
        ELSE IF ~Has(f.properties, "name") THEN Raise("KeyError")
        ELSE Return([station_id |-> f.properties.stationIdentifier,
                     station_name |-> f.properties.name])

\* features[0]["properties"]["stationIdentifier"], ...["name"]
first_station_of(stations_data) ==
    LET features == Get(stations_data, "features", <<>>)
        f == features[1]
    IN  IF features = <<>>
        THEN Exit1(<<Line("Error", <<"No observation stations found near this location.">>)>>)
        ELSE IF ~Has(f, "properties") THEN Raise("KeyError")
        ELSE IF ~Has(f.properties, "stationIdentifier") THEN Raise("KeyError")
        ELSE IF ~Has(f.properties, "name") THEN Raise("KeyError")
        ELSE Return([station_id |-> f.properties.stationIdentifier,
                     station_name |-> f.properties.name])

\* obs_data["properties"]
obs_props_of(obs_data) ==
    IF ~Has(obs_data, "properties") THEN Raise("KeyError")
    ELSE Return(obs_data.properties)

(* ----------------------------------------------------------------------- *)
(* Helpers                                                                 *)
(* ----------------------------------------------------------------------- *)

\* the strings datetime.fromisoformat accepts, among those the model uses
ValidIso(s) == s \in {"2024-05-01T12:53:00+00:00", "2024-05-01T12:53:00Z"}

\* ts is obs_props.get("timestamp"): a JSON value, JNull when the key is absent
format_timestamp(ts) ==
    IF ~Truthy(ts) THEN Return(<<"Unknown">>)
    ELSE IF ts.t # "str" THEN Raise("AttributeError")
    ELSE IF ValidIso(ts.s) THEN Return(<<"local time of", ts.s>>)
    ELSE Return(<<ts.s>>)

Max(S) == CHOOSE x \in S : \A y \in S : y <= x

Min(S) == CHOOSE x \in S : \A y \in S : x <= y

Last(seq) == seq[Len(seq)]

(* ----------------------------------------------------------------------- *)
(* Entry point: the pieces of main                                         *)
(* ----------------------------------------------------------------------- *)

\* argparse: the defaults of the positional city and of -p.  An argument
\* that was not given is the empty sequence.
ParseArgs(city, p, list, json) ==
    [city       |-> IF city = <<>> THEN DEFAULT_CITY ELSE city,
     properties |-> IF p = <<>> THEN DEFAULT_PROPERTIES ELSE p,
     list       |-> list,
     json       |-> json]

\* the mutant that marks only the first default property
is_first_default(name) == name = DEFAULT_PROPERTIES[1]

\* name in DEFAULT_PROPERTIES
is_default(name) == name \in Range(DEFAULT_PROPERTIES)

\* what --list prints to stdout
listing(json) ==
    IF json
    THEN <<[kind       |-> "json",
            default    |-> DEFAULT_PROPERTIES,
            properties |-> [i \in DOMAIN PropertyNames |->
                              [name    |-> PropertyNames[i],
                               label   |-> PROPERTIES[PropertyNames[i]].label,
                               default |-> is_default(PropertyNames[i])]]]>>
    ELSE LET max_len == Max({Len(k) : k \in DOMAIN PROPERTIES})
         IN  <<Line("Available properties:", <<>>)>>
             \o [i \in DOMAIN PropertyNames |->
                    [kind   |-> "entry",
                     name   |-> PropertyNames[i],
                     width  |-> max_len,
                     label  |-> PROPERTIES[PropertyNames[i]].label,
                     marker |-> is_default(PropertyNames[i])]]
             \o <<Line("blank", <<>>), Line("* default", <<>>)>>

\* the mutant that reports only the first unknown name
first_unknown(properties) ==
    LET NotRegistered(p) == p \notin DOMAIN PROPERTIES
        all == SelectSeq(properties, NotRegistered)
    IN  IF all = <<>> THEN <<>> ELSE <<all[1]>>

\* [p for p in args.properties if p not in PROPERTIES]
unknown(properties) ==
    LET NotRegistered(p) == p \notin DOMAIN PROPERTIES
    IN  SelectSeq(properties, NotRegistered)

\* the two stderr lines of the validation failure
unknown_error(unk) ==
    <<Line("Error", <<IF Len(unk) = 1 THEN "Unknown property" ELSE "Unknown properties">> \o unk),
      Line("Hint", <<"Run with --list to see available properties.">>)>>

\* the mutant of log that always prints to stdout
log_to_stdout(json) == "stdout"

\* log = (lambda msg: print(msg, file=sys.stderr)) if args.json else print
log_stream(json) == IF json THEN "stderr" ELSE "stdout"

\* the mutant that reads raw["value"] of whatever the entry is
prop_value_unchecked(obs_props, meta) ==
    LET raw == Get(obs_props.o, meta.api_key, JObj(Empty))
    IN  IF IsDict(raw) THEN Get(raw.o, "value", JNull) ELSE raw

\* raw = obs_props.get(meta["api_key"], {})
\* raw.get("value") if isinstance(raw, dict) else None
prop_value(obs_props, meta) ==
    LET raw == Get(obs_props.o, meta.api_key, JObj(Empty))
    IN  IF IsDict(raw) THEN Get(raw.o, "value", JNull) ELSE JNull

\* a formatter applied to a value that is no number raises
Converts(v) == v.t = "num"

\* the exception a formatter raises on a value that is a string
conversion_error(meta, json) ==
    IF ~json /\ meta.fmt = "humidity" THEN "ValueError" ELSE "TypeError"

\* what main prints to stdout after get_observation returned, and the
\* exception that ends it early ("" when none does)
report(args, display_name, station_name, station_id, obs_props) ==
    LET props     == args.properties
        value(i)  == prop_value(obs_props, PROPERTIES[props[i]])
        Bad(i)    == value(i).t # "null" /\ ~Converts(value(i))
        bad       == {i \in DOMAIN props : Bad(i)}
        ts        == Get(obs_props.o, "timestamp", JNull)
        \* JSON: prop_values is a dict, one entry per distinct name
        FirstOf(name) == CHOOSE i \in DOMAIN props :
                            props[i] = name /\ \A j \in 1..(i - 1) : props[j] # name
        names     == Dedup(props)
        doc       == [kind       |-> "json",
                      location   |-> display_name,
                      station    |-> [name |-> station_name, id |-> station_id],
                      observed   |-> ts,
                      properties |-> [k \in DOMAIN names |->
                          LET v == value(FirstOf(names[k]))
                          IN  [name  |-> names[k],
                               avail |-> v.t # "null",
                               toks  |-> IF v.t # "null"
                                         THEN Json(PROPERTIES[names[k]], v.n)
                                         ELSE <<>>]]]
        \* text
        head      == <<Line("blank", <<>>),
                       Line("Location", display_name),
                       Line("Station", <<station_name, station_id>>)>>
        observed  == format_timestamp(ts)
        label_width == Max({Len(PROPERTIES[props[i]].label) : i \in DOMAIN props})
        upto      == IF bad = {} THEN Len(props) ELSE Min(bad) - 1
        lines     == [i \in 1..upto |->
                          [kind  |-> "property",
                           label |-> PROPERTIES[props[i]].label,
                           width |-> label_width,
                           avail |-> value(i).t # "null",
                           toks  |-> IF value(i).t # "null"
                                     THEN Format(PROPERTIES[props[i]], value(i).n)
                                     ELSE <<>>]]
    IN  IF ~IsDict(obs_props) THEN [out |-> <<>>, exc |-> "AttributeError"]
        ELSE IF args.json
        THEN IF bad # {}
             THEN [out |-> <<>>, exc |-> "TypeError"]
             ELSE [out |-> <<doc>>, exc |-> ""]
        ELSE IF observed.ctl = "raise"
        THEN [out |-> head, exc |-> observed.exc]
        ELSE [out |-> head \o <<Line("Observed", observed.val), Line("blank", <<>>)>> \o lines,
              exc |-> IF bad = {} THEN ""
                      ELSE conversion_error(PROPERTIES[props[upto + 1]], FALSE)]

(* ----------------------------------------------------------------------- *)
(* Inputs: command lines and responses of the remote services              *)
(* ----------------------------------------------------------------------- *)

Cities == {<<>>, <<"Portland">>, <<"Portland", "ME">>}

PropArgs == {<<>>} \cup SeqsUpTo(PropArgNames, MaxProps)

\* search results; coordinates in 1e-5 degrees
R_MapleValley ==
    [name |-> "Maple Valley", admin1 |-> "Washington", country_code |-> "US",
     latitude |-> 4739274, longitude |-> -12204641]

R_PortlandOR ==
    [name |-> "Portland", admin1 |-> "Oregon", country_code |-> "US",
     latitude |-> 4552345, longitude |-> -12267621]

R_PortlandME ==
    [name |-> "Portland", admin1 |-> "Maine", country_code |-> "US",
     latitude |-> 4365737, longitude |-> -7025893]

R_PortlandAU ==
    [name |-> "Portland", admin1 |-> "Victoria", country_code |-> "AU",
     latitude |-> -3834178, longitude |-> 14160352]

R_NoAdmin ==
    [name |-> "Portland", country_code |-> "US",
     latitude |-> 4552345, longitude |-> -12267621]

R_NoLatitude ==
    [name |-> "Portland", admin1 |-> "Oregon", country_code |-> "US",
     longitude |-> -12267621]

GeocodeBodies ==
    {Empty,
     [results |-> <<>>],
     [results |-> <<R_PortlandAU>>],
     [results |-> <<R_PortlandAU, R_PortlandOR, R_PortlandME>>],
     [results |-> <<R_MapleValley>>],
     [results |-> <<R_NoAdmin>>],
     [results |-> <<R_NoLatitude>>]}

PointsBodies ==
    {Empty,
     [properties |-> JNull],
     [properties |-> JObj(Empty)],
     [properties |-> JObj([observationStations |-> "gridpoints/SEW/131,57/stations"])],
     [properties |-> JObj([observationStations |-> "gridpoints/GYX/76,59/stations"])]}

F_KSEA == [properties |-> [stationIdentifier |-> "KSEA", name |-> "Seattle-Tacoma"]]

F_KPWM == [properties |-> [stationIdentifier |-> "KPWM", name |-> "Portland Jetport"]]

StationsBodies ==
    {Empty,
     [features |-> <<>>],
     [features |-> <<F_KSEA, F_KPWM>>],
     [features |-> <<F_KPWM, F_KSEA>>],
     [features |-> <<Empty, F_KSEA>>],
     [features |-> <<[properties |-> [name |-> "Seattle-Tacoma"]]>>],
     [features |-> <<[properties |-> [stationIdentifier |-> "KSEA"]]>>]}

Value(v) == JObj([value |-> v])

ObsProps ==
    {Empty,
     [timestamp        |-> JStr("2024-05-01T12:53:00+00:00"),
      temperature      |-> Value(JNum(20)),
      relativeHumidity |-> Value(JNum(55)),
      windSpeed        |-> Value(JNum(15)),
      windDirection    |-> Value(JNum(200))],
     [temperature      |-> Value(JNull),
      relativeHumidity |-> JNull,
      windDirection    |-> JObj(Empty)],
     [timestamp        |-> JStr("yesterday"),
      temperature      |-> Value(JNum(-5)),
      relativeHumidity |-> JNum(55),
      windSpeed        |-> Value(JNum(0)),
      windDirection    |-> Value(JNum(349))],
     [timestamp        |-> JStr("2024-05-01T12:53:00Z"),
      temperature      |-> Value(JNum(31)),
      relativeHumidity |-> Value(JStr("n/a"))],
     [timestamp        |-> JNum(1714567980),
      temperature      |-> Value(JNum(20)),
      relativeHumidity |-> Value(JNum(55))]}

ObsBodies ==
    {Empty, [properties |-> JNull]} \cup {[properties |-> JObj(o)] : o \in ObsProps}

Responses(bodies) == FetchFailures \cup {HttpOk(b) : b \in bodies}

(* ----------------------------------------------------------------------- *)
(* State                                                                   *)
(* ----------------------------------------------------------------------- *)

VARIABLES
    argv,          \* the command line: city, p, list, json (<<>>: not given)
    pc,            \* "main", the fetch main is blocked in, or "exited"
    exit_status,   \* -1 while running, then the process's exit status
    stdout,        \* the lines printed to stdout, in order
    stderr,        \* the lines printed to stderr, in order
    requests,      \* the HTTP requests issued, in order
    responses,     \* what each issued request came back with, in order
    lat, lon, display_name,     \* locals of main
    stations_url,               \* local of get_observation
    station_id, station_name    \* locals of get_observation

vars == <<argv, pc, exit_status, stdout, stderr, requests, responses,
          lat, lon, display_name, stations_url, station_id, station_name>>

\* args = parser.parse_args()
args == ParseArgs(argv.city, argv.p, argv.list, argv.json)

locals == <<lat, lon, display_name, stations_url, station_id, station_name>>

Init ==
    /\ argv \in [city : Cities, p : PropArgs, list : BOOLEAN, json : BOOLEAN]
    /\ pc = "main"
    /\ exit_status = -1
    /\ stdout = <<>>
    /\ stderr = <<>>
    /\ requests = <<>>
    /\ responses = <<>>
    /\ lat = 0
    /\ lon = 0
    /\ display_name = <<>>
    /\ stations_url = ""
    /\ station_id = ""
    /\ station_name = ""

(* ----------------------------------------------------------------------- *)
(* Steps                                                                   *)
(* ----------------------------------------------------------------------- *)

\* the mutant of urlopen that sends the request a second time
urlopen_twice(reqs, req) == Append(Append(reqs, req), req)

\* urllib.request.urlopen(req, timeout=10): the request goes out
urlopen(reqs, req) == Append(reqs, req)

\* log(msg)
Log(line) ==
    IF log_stream(args.json) = "stderr"
    THEN stderr' = Append(stderr, line) /\ UNCHANGED stdout
    ELSE stdout' = Append(stdout, line) /\ UNCHANGED stderr

\* sys.exit(1) after the error lines, or an uncaught exception: the
\* interpreter prints the traceback to stderr and exits with status 1
Abort(c) ==
    /\ stderr' = stderr \o (IF c.ctl = "exit" THEN c.err
                            ELSE <<Line("Traceback", <<c.exc>>)>>)
    /\ exit_status' = 1
    /\ pc' = "exited"
    /\ UNCHANGED <<stdout, requests>>

\* main, --list: print the registry and return
ListProperties ==
    /\ pc = "main"
    /\ args.list
    /\ stdout' = stdout \o listing(args.json)
    /\ exit_status' = 0
    /\ pc' = "exited"
    /\ UNCHANGED <<argv, stderr, requests, responses, locals>>

\* main, validation of the requested properties fails
RejectUnknown ==
    /\ pc = "main"
    /\ ~args.list
    /\ unknown(args.properties) # <<>>
    /\ Abort(Exit1(unknown_error(unknown(args.properties))))
    /\ UNCHANGED <<argv, responses, locals>>

\* main up to the fetch in geocode
LookUp ==
    /\ pc = "main"
    /\ ~args.list
    /\ unknown(args.properties) = <<>>
    /\ Log(Line("Looking up", args.city))
    /\ requests' = urlopen(requests, Request("geocode", args.city[1], 0, 0, "", ""))
    /\ pc' = "geocode"
    /\ UNCHANGED <<argv, exit_status, responses, locals>>

\* the search response arrives: rest of geocode, main's second log line,
\* get_observation up to its first fetch
GeocodeReturns ==
    /\ pc = "geocode"
    /\ \E resp \in Responses(GeocodeBodies) :
          LET f == fetch(Last(requests), resp)
              g == IF f.ctl = "return" THEN geocode(args.city, f.val) ELSE f
          IN  /\ responses' = Append(responses, resp)
              /\ IF g.ctl = "return"
                 THEN /\ lat' = g.val.lat
                      /\ lon' = g.val.lon
                      /\ display_name' = g.val.display_name
                      /\ Log(Line("Fetching weather data", <<>>))
                      /\ requests' = urlopen(requests,
                            Request("points", "", Round(g.val.lat, 10), Round(g.val.lon, 10), "", ""))
                      /\ pc' = "points"
                      /\ UNCHANGED <<argv, exit_status, stations_url, station_id, station_name>>
                 ELSE /\ Abort(g)
                      /\ UNCHANGED <<argv, locals>>

\* the points response arrives: get_observation up to its second fetch
PointsReturns ==
    /\ pc = "points"
    /\ \E resp \in Responses(PointsBodies) :
          LET f == fetch(Last(requests), resp)
              g == IF f.ctl = "return" THEN stations_url_of(f.val) ELSE f
          IN  /\ responses' = Append(responses, resp)
              /\ IF g.ctl = "return"
                 THEN /\ stations_url' = g.val
                      /\ requests' = urlopen(requests, Request("stations", "", 0, 0, g.val, ""))
                      /\ pc' = "stations"
                      /\ UNCHANGED <<argv, exit_status, stdout, stderr,
                                     lat, lon, display_name, station_id, station_name>>
                 ELSE /\ Abort(g)
                      /\ UNCHANGED <<argv, locals>>

\* the stations response arrives: get_observation up to its third fetch
StationsReturns ==
    /\ pc = "stations"
    /\ \E resp \in Responses(StationsBodies) :
          LET f == fetch(Last(requests), resp)
              g == IF f.ctl = "return" THEN first_station_of(f.val) ELSE f
          IN  /\ responses' = Append(responses, resp)
              /\ IF g.ctl = "return"
                 THEN /\ station_id' = g.val.station_id
                      /\ station_name' = g.val.station_name
                      /\ requests' = urlopen(requests,
                            Request("observation", "", 0, 0, "", g.val.station_id))
                      /\ pc' = "observation"
                      /\ UNCHANGED <<argv, exit_status, stdout, stderr,
                                     lat, lon, display_name, stations_url>>
                 ELSE /\ Abort(g)
                      /\ UNCHANGED <<argv, locals>>

\* the latest observation arrives: rest of get_observation and of main
ObservationReturns ==
    /\ pc = "observation"
    /\ \E resp \in Responses(ObsBodies) :
          LET f == fetch(Last(requests), resp)
              g == IF f.ctl = "return" THEN obs_props_of(f.val) ELSE f
          IN  /\ responses' = Append(responses, resp)
              /\ IF g.ctl = "return"
                 THEN LET rep == report(args, display_name, station_name, station_id, g.val)
                      IN  /\ stdout' = stdout \o rep.out
                          /\ stderr' = IF rep.exc = "" THEN stderr
                                       ELSE Append(stderr, Line("Traceback", <<rep.exc>>))
                          /\ exit_status' = IF rep.exc = "" THEN 0 ELSE 1
                          /\ pc' = "exited"
                          /\ UNCHANGED <<argv, requests, locals>>
                 ELSE /\ Abort(g)
                      /\ UNCHANGED <<argv, locals>>

Next ==
    \/ ListProperties
    \/ RejectUnknown
    \/ LookUp
    \/ GeocodeReturns
    \/ PointsReturns
    \/ StationsReturns
    \/ ObservationReturns

Spec == Init /\ [][Next]_vars

(* ----------------------------------------------------------------------- *)
(* Vocabulary of the properties                                            *)
(* ----------------------------------------------------------------------- *)

Kinds(seq) == [i \in DOMAIN seq |-> seq[i].kind]

Count(seq, kind) == Cardinality({i \in DOMAIN seq : seq[i].kind = kind})

IsPrefix(a, b) == Len(a) <= Len(b) /\ \A i \in DOMAIN a : a[i] = b[i]

Chain == <<"geocode", "points", "stations", "observation">>

Exited == pc = "exited"

\* a JSON document on stdout that is a weather report
IsReportDoc(x) == x.kind = "json" /\ Has(x, "location")

\* part of a weather report on stdout
IsReportItem(x) ==
    x.kind \in {"Location", "Station", "Observed", "property"} \/ IsReportDoc(x)

ReportPrinted == \E i \in DOMAIN stdout : IsReportItem(stdout[i])

ListingPrinted ==
    \E i \in DOMAIN stdout :
        stdout[i].kind = "entry" \/ (stdout[i].kind = "json" /\ Has(stdout[i], "default"))

ProgressKinds == {"Looking up", "Fetching weather data"}

ErrorKinds == {"Error", "Hint", "Traceback"}

\* the properties the command line asks for
Requested == IF argv.p = <<>> THEN <<"temperature", "humidity">> ELSE argv.p

Registered(name) == name \in Range(PropertyNames)

(* ----------------------------------------------------------------------- *)
(* C1                                                                      *)
(* ----------------------------------------------------------------------- *)

\* C1: requests go out in the order geocoding search, points lookup,
\* stations list, latest observation of the first listed station; a request
\* goes out only when every earlier one has returned successfully; and
\* nothing of a weather report is on stdout before the latest-observation
\* request has returned successfully.
C1_RequestOrder ==
    /\ IsPrefix(Kinds(requests), Chain)
    /\ Len(responses) \in {Len(requests) - 1, Len(requests)}
    /\ \A i \in 1..(Len(requests) - 1) : responses[i].status = "ok"
    /\ Len(requests) = 4 =>
          LET first == responses[3].body.features[1]
          IN  /\ Has(first, "properties")
              /\ Has(first.properties, "stationIdentifier")
              /\ requests[4].station = first.properties.stationIdentifier
    /\ ReportPrinted =>
          /\ Kinds(requests) = Chain
          /\ Len(responses) = 4
          /\ responses[4].status = "ok"

\* a complete report was printed and the stations list held two stations
C1_Witness ==
    /\ Exited
    /\ exit_status = 0
    /\ ReportPrinted
    /\ Len(responses[3].body.features) = 2
    /\ responses[3].body.features[1] # responses[3].body.features[2]

(* ----------------------------------------------------------------------- *)
(* C2                                                                      *)
(* ----------------------------------------------------------------------- *)

\* C2 as stated: a run that prints a weather report issues exactly three
\* HTTP calls, and no run issues more than three.
C2_ThreeCalls ==
    /\ Len(requests) <= 3
    /\ ReportPrinted => Len(requests) = 3

\* C2, amended: a run that prints a weather report issues exactly four HTTP
\* calls, one after another (at most one is outstanding at any time), and
\* no run issues more than four.
C2_FourCalls ==
    /\ Len(requests) <= 4
    /\ Len(requests) - Len(responses) \in {0, 1}
    /\ ReportPrinted => Len(requests) = 4 /\ Len(responses) = 4

C2_Witness ==
    /\ Exited
    /\ exit_status = 0
    /\ ReportPrinted
    /\ Len(requests) = 4

(* ----------------------------------------------------------------------- *)
(* C3                                                                      *)
(* ----------------------------------------------------------------------- *)

Failed(resp) == resp.status \in {"HTTPError", "URLError"}

C4_TwoEndings ==
    Exited =>
        LET normal == /\ exit_status = 0
                      /\ ListingPrinted \/ ReportPrinted
                      /\ Count(stderr, "Error") = 0
                      /\ Count(stderr, "Traceback") = 0
            failed == /\ exit_status = 1
                      /\ Count(stderr, "Error") = 1
                      /\ Count(stderr, "Traceback") = 0
        IN  (normal \/ failed) /\ ~(normal /\ failed)

(* ----------------------------------------------------------------------- *)
(* C5                                                                      *)
(* ----------------------------------------------------------------------- *)

\* C5: with --json and without --list, every progress and error line is on
\* stderr and none on stdout; stdout is empty or holds exactly one JSON
\* document, and holds it only when the run has ended with status 0.
C5_JsonStdout ==
    (argv.json /\ ~argv.list) =>
        /\ \A i \in DOMAIN stdout : stdout[i].kind \notin ProgressKinds \cup ErrorKinds
        /\ Len(requests) >= 1 => Count(stderr, "Looking up") = 1
        /\ Len(requests) >= 2 => Count(stderr, "Fetching weather data") = 1
        /\ (Exited /\ exit_status = 1) => Count(stderr, "Error") + Count(stderr, "Traceback") = 1
        /\ \/ stdout = <<>>
           \/ /\ Len(stdout) = 1
              /\ stdout[1].kind = "json"
              /\ Exited
              /\ exit_status = 0

\* a JSON run printed its document after both progress lines
C5_Witness ==
    /\ argv.json
    /\ ~argv.list
    /\ Len(stdout) = 1
    /\ IsReportDoc(stdout[1])
    /\ Kinds(stderr) = <<"Looking up", "Fetching weather data">>

(* ----------------------------------------------------------------------- *)
(* C6                                                                      *)
(* ----------------------------------------------------------------------- *)

\* the (name, label, default mark) rows of a printed listing
ListingRows ==
    IF argv.json
    THEN [i \in DOMAIN stdout[1].properties |->
            <<stdout[1].properties[i].name,
              stdout[1].properties[i].label,
              stdout[1].properties[i].default>>]
    ELSE LET rows == SelectSeq(stdout, LAMBDA x : x.kind = "entry")
         IN  [i \in DOMAIN rows |-> <<rows[i].name, rows[i].label, rows[i].marker>>]

\* C6: with --list, whatever the city, the -p names and --json, no request
\* is ever issued, nothing is written to stderr, neither the validation
\* failure nor the lookup can happen, and the run ends with status 0 after
\* printing one row per registered property, in registry order, marked as
\* default exactly for temperature and humidity.
C6_ListOnly ==
    argv.list =>
        /\ requests = <<>>
        /\ stderr = <<>>
        /\ pc \in {"main", "exited"}
        /\ pc = "main" => /\ stdout = <<>>
                          /\ ENABLED ListProperties
                          /\ ~ENABLED RejectUnknown
                          /\ ~ENABLED LookUp
        /\ Exited =>
              /\ exit_status = 0
              /\ Len(ListingRows) = Len(PropertyNames)
              /\ \A i \in DOMAIN ListingRows :
                    /\ ListingRows[i][1] = PropertyNames[i]
                    /\ ListingRows[i][2] = PROPERTIES[PropertyNames[i]].label
                    /\ ListingRows[i][3] = (PropertyNames[i] \in {"temperature", "humidity"})
              /\ ~ReportPrinted

\* a JSON listing was printed although an unregistered name was given
C6_Witness ==
    /\ argv.list
    /\ argv.json
    /\ Exited
    /\ ListingPrinted
    /\ \E i \in DOMAIN argv.p : ~Registered(argv.p[i])
    /\ argv.city # <<>>

(* ----------------------------------------------------------------------- *)
(* C7                                                                      *)
(* ----------------------------------------------------------------------- *)

\* the observation of a run whose four requests returned
Observation == responses[4].body.properties.o

\* the observation holds an object with a non-null "value" under the
\* property's api_key
HoldsValue(name) ==
    LET k == PROPERTIES[name].api_key
    IN  /\ Has(Observation, k)
        /\ Observation[k].t = "obj"
        /\ Has(Observation[k].o, "value")
        /\ Observation[k].o.value.t # "null"

RawValue(name) == Observation[PROPERTIES[name].api_key].o.value.n

\* n is x * num / den rounded to the nearest integer
Nearest(n, x, num, den) ==
    /\ 2 * (n * den - x * num) <= den
    /\ 2 * (x * num - n * den) <= den

\* toks is the conversion of v by the formatters of the property: the
\* imperial figure first, the metric one second
Converted(name, v, toks) ==
    LET fmt == PROPERTIES[name].fmt
    IN  CASE fmt = "temp" ->
               Len(toks) = 2 /\ toks[1].n = 18 * v + 320 /\ toks[2].n = 10 * v
          [] fmt = "humidity" ->
               Len(toks) = 1 /\ toks[1].n = 10 * v
          [] fmt = "wind_speed" ->
               Len(toks) = 2 /\ Nearest(toks[1].n, v, 621371, 100000) /\ toks[2].n = 10 * v
          [] fmt = "wind_direction" ->
               /\ Len(toks) = 2
               /\ toks[2].n = v
               /\ \E k \in 0..16 :
                     /\ toks[1].s = directions[(k % 16) + 1]
                     /\ 4 * v - 90 * k <= 45
                     /\ 90 * k - 4 * v <= 45
          [] fmt = "pressure" ->
               Len(toks) = 2 /\ Nearest(toks[1].n, v, 295299, 10000000)
                             /\ Nearest(toks[2].n, v, 1, 10)
          [] fmt = "visibility" ->
               Len(toks) = 2 /\ Nearest(toks[1].n, v, 621371, 100000000)
                             /\ Nearest(toks[2].n, v, 1, 100)
          [] fmt = "precipitation" ->
               Len(toks) = 2 /\ Nearest(toks[1].n, v, 393701, 100000) /\ toks[2].n = 10 * v

\* the entry is that of the property: the converted value when the
\* observation holds one, and unavailable (no value at all) otherwise
EntryOf(name, e) ==
    /\ e.avail = HoldsValue(name)
    /\ e.avail => Converted(name, RawValue(name), e.toks)
    /\ ~e.avail => e.toks = <<>>

\* the run can only fail on a requested value that is there and is no number
Convertible(name) == HoldsValue(name) => Observation[PROPERTIES[name].api_key].o.value.t = "num"

\* C7: a report that was printed in full (the run ended with status 0) has
\* one entry per requested property and no other: in text mode one line per
\* name given, in the order given; in JSON mode one member per distinct name,
\* in the order of first mention.  Each entry holds the converted value when
\* the observation holds a non-null value for it and is unavailable
\* otherwise.  A run whose observation arrived never fails because a value
\* is missing: it ends with status 0 whenever every value that is there is
\* a number (and, in text mode, the timestamp can be formatted).
C7_ReportEntries ==
    /\ (Exited /\ exit_status = 0 /\ ~argv.list) =>
          IF argv.json
          THEN /\ Len(stdout) = 1
               /\ IsReportDoc(stdout[1])
               /\ [i \in DOMAIN stdout[1].properties |-> stdout[1].properties[i].name]
                     = Dedup(Requested)
               /\ \A i \in DOMAIN stdout[1].properties :
                     EntryOf(stdout[1].properties[i].name, stdout[1].properties[i])
          ELSE LET lines == SelectSeq(stdout, LAMBDA x : x.kind = "property")
               IN  /\ Len(lines) = Len(Requested)
                   /\ \A i \in DOMAIN lines :
                         /\ lines[i].label = PROPERTIES[Requested[i]].label
                         /\ EntryOf(Requested[i], lines[i])
    /\ (/\ Exited
        /\ Len(responses) = 4
        /\ responses[4].status = "ok"
        /\ Has(responses[4].body, "properties")
        /\ responses[4].body.properties.t = "obj"
        /\ \A i \in DOMAIN Requested : Convertible(Requested[i])
        /\ argv.json \/ ~Has(Observation, "timestamp") \/ Observation.timestamp.t \in {"str", "null"})
          => exit_status = 0

\* a text report with a converted value and a value that is unavailable
\* because its entry in the observation is no object
C7_Witness ==
    /\ Exited
    /\ exit_status = 0
    /\ ~argv.list
    /\ ~argv.json
    /\ \E i, j \in DOMAIN stdout :
          /\ stdout[i].kind = "property" /\ stdout[i].avail
          /\ stdout[j].kind = "property" /\ ~stdout[j].avail
    /\ Has(Observation, "relativeHumidity")
    /\ Observation.relativeHumidity.t # "obj"

(* ----------------------------------------------------------------------- *)
(* C8                                                                      *)
(* ----------------------------------------------------------------------- *)

\* the requested names that are not registered, in the order given
UnknownRequested == SelectSeq(Requested, LAMBDA n : ~Registered(n))

\* C8: without --list and with a requested name that is not registered, no
\* request is ever issued and no progress line is ever printed; the run ends
\* with status 1 and stderr holds the error line naming every unregistered
\* name in the order given, then the hint.  Conversely a request is issued
\* only without --list and with every requested name registered.
C8_RejectUnknown ==
    /\ (~argv.list /\ UnknownRequested # <<>>) =>
          /\ requests = <<>>
          /\ stdout = <<>>
          /\ \A i \in DOMAIN stderr : stderr[i].kind \notin ProgressKinds
          /\ pc \in {"main", "exited"}
          /\ pc = "main" => stderr = <<>> /\ ~ENABLED LookUp /\ ENABLED RejectUnknown
          /\ Exited =>
                /\ exit_status = 1
                /\ Kinds(stderr) = <<"Error", "Hint">>
                /\ Tail(stderr[1].text) = UnknownRequested
    /\ requests # <<>> =>
          /\ ~argv.list
          /\ \A i \in DOMAIN Requested : Registered(Requested[i])

\* two different unregistered names were rejected
C8_Witness ==
    /\ ~argv.list
    /\ Exited
    /\ Len(UnknownRequested) = 2
    /\ UnknownRequested[1] # UnknownRequested[2]
    /\ Count(stderr, "Error") = 1

====
